---- MODULE Spec2Model ----
(***************************************************************************)
(* Model of pdoc/docstrings.py: the conversion of docstring flavours to    *)
(* Markdown.                                                               *)
(*                                                                         *)
(* Spec         convert() with its memo table, the environment flag, the   *)
(*              files read by include and embed_images, and exceptions.    *)
(* A docstring is a sequence of elements; each element stands for one      *)
(* piece of text a regular expression of the module matches (or none).     *)
(***************************************************************************)
EXTENDS Naturals, Integers, Sequences, FiniteSets, TLC

VARIABLES
    env,        \* os.environ.get("PDOC_EMBED_IMAGES")
    img,        \* the bytes of the local image file, or Missing
    files,      \* include file name -> its text, or Missing
    memo,       \* the table of @cache: argument tuple -> returned value
    pc,         \* position of the running call of convert
    args,       \* the arguments of the running (or last) call
    docstring,  \* local variable docstring of convert
    docformat,  \* local variable docformat of convert
    trace,      \* stages the running call has entered, in order
    raised,     \* exceptions raised so far inside the running call
    outcome,    \* how the call left convert
    hit,        \* the call was answered from the memo table
    returned,   \* every (argument tuple, value) a call has returned
    ncalls,     \* calls started
    nedits,     \* changes of the environment made
    inc,        \* _rst_admonitions recursing into included files
    fn,         \* _rst_footnotes
    lk,         \* _rst_links
    adm,        \* _rst_admonition rendering one directive
    spl         \* numpy calling _indented_list

convertVars == <<env, img, files, memo, pc, args, docstring, docformat, trace,
                 raised, outcome, hit, returned, ncalls, nedits>>

vars == <<env, img, files, memo, pc, args, docstring, docformat, trace,
          raised, outcome, hit, returned, ncalls, nedits, inc, fn, lk, adm, spl>>

\* a part of the module that the specification at hand does not run
Off == [pc |-> "off"]

(***************************************************************************)
(* Bounds                                                                  *)
(***************************************************************************)
MaxCalls == 2
MaxEdits == 1
RecursionLimit == 3

None == "None"
Missing == "Missing"
Unset == "Unset"

(***************************************************************************)
(* Exceptions: the classes of Python each exception is an instance of.     *)
(***************************************************************************)
Bases(exc) ==
    CASE exc = "KeyboardInterrupt" -> {"KeyboardInterrupt", "BaseException"}
      [] exc = "SystemExit"        -> {"SystemExit", "BaseException"}
      [] exc = "GeneratorExit"     -> {"GeneratorExit", "BaseException"}
      [] exc = "OSError"           -> {"OSError", "Exception", "BaseException"}
      [] exc = "ValueError"        -> {"ValueError", "Exception", "BaseException"}
      [] exc = "AssertionError"    -> {"AssertionError", "Exception", "BaseException"}
      [] exc = "IndexError"        -> {"IndexError", "Exception", "BaseException"}
      [] exc = "RecursionError"    -> {"RecursionError", "RuntimeError", "Exception", "BaseException"}
      [] exc = "RuntimeError"      -> {"RuntimeError", "Exception", "BaseException"}
      [] OTHER                     -> {"BaseException"}

IsInstance(exc, classes) == Bases(exc) \cap classes # {}

AnyExceptionAll == {"BaseException"}
AnyException == {"SystemExit", "GeneratorExit", "Exception"}

(***************************************************************************)
(* Inputs                                                                  *)
(***************************************************************************)
\* A docformat is a sequence of words; "google" in docformat is membership.
LowerWord(w) ==
    CASE w = "Google" -> "google"
      [] w = "NumPy" -> "numpy"
      [] w = "reStructuredText" -> "restructuredtext"
      [] OTHER -> w

Lower(tag) == [i \in DOMAIN tag |-> LowerWord(tag[i])]

In(word, tag) == \E i \in DOMAIN tag : tag[i] = word

Tags == { <<"markdown">>, <<"Google">>, <<"numpy">>, <<"restructuredtext">>,
          <<"google", "numpy">> }

Sources == {None, "mod.py"}

Files == {"f1", "f2"}

\* Elements of a docstring:
\*   prose  text no regular expression of the module matches
\*   role   an rST code reference, rewritten by rst() to "code"
\*   gsec   a Google prose section, rewritten by google() to "gmd"
\*   nsec   a NumPy parameter section, rewritten by numpy() to "nmd"
\*   nbad   a NumPy parameter section whose dedented body starts with a blank
\*          line: _indented_list fails its assertion
\*   img    a reference ![alt](pic.png) to the local image
\*   inc1, inc2   the directive .. include:: f1 / f2
\*   uri0, uri1   the data URI of the image bytes v0 / v1
Texts == { <<"role", "nbad">>, <<"img", "gsec">>, <<"inc1", "nsec">> }

FileOf(tok) == IF tok = "inc1" THEN "f1" ELSE "f2"
IsInclude(tok) == tok \in {"inc1", "inc2"}

\* an include file: whether it can be read, and its text
File(text) == [exists |-> TRUE, text |-> text]
NoFile == [exists |-> FALSE, text |-> <<>>]
FileStates == { File(<<"img">>), File(<<"inc2">>), File(<<"inc1">>), NoFile }

Uri(bytes) == IF bytes = "v0" THEN "uri0" ELSE "uri1"
IsUri(tok) == tok \in {"uri0", "uri1"}

\* A fault is an exception the environment raises at a site of the code.
NoFault == [site |-> None, exc |-> None]
Faults == {NoFault} \cup
          [site : {"body", "read", "trim", "callback"},
           exc : {"KeyboardInterrupt", "SystemExit"}] \cup
          {[site |-> "trim", exc |-> "ValueError"]}

(***************************************************************************)
(* Stage results                                                           *)
(***************************************************************************)
Ok(out, rs) == [exc |-> None, out |-> out, raised |-> rs]
Raise(site, exc, rs) == [exc |-> exc, out |-> <<>>, raised |-> rs \cup {<<site, exc>>}]

(***************************************************************************)
(* embed_images                                                            *)
(***************************************************************************)
CallbackCatches == {"Exception"}

\* what local_image_to_data_uri raises for one img element, or None
ImageRaises(bytes, fault) ==
    IF fault.site = "callback" THEN fault.exc
    ELSE IF bytes = Missing THEN "OSError"
    ELSE None

EmbedImages(text, bytes, fault) ==
    LET hasImg == \E i \in DOMAIN text : text[i] = "img"
        e == ImageRaises(bytes, fault)
        rs == IF hasImg /\ e # None THEN {<<"callback", e>>} ELSE {}
    IN  IF fault.site = "body" THEN Raise("body", fault.exc, {})
        ELSE IF hasImg /\ e # None /\ ~IsInstance(e, CallbackCatches)
             THEN Raise("callback", e, {})
        ELSE Ok([i \in DOMAIN text |->
                    IF text[i] = "img" /\ e = None THEN Uri(bytes) ELSE text[i]],
                rs)

(***************************************************************************)
(* rst: _rst_admonitions with the include directive, then the passes that  *)
(* rewrite the rest of the text                                            *)
(***************************************************************************)
ReadCatches == {"OSError"}
TrimCatches == {"ValueError"}

\* what (loc.parent / val).read_text raises, or None
ReadRaises(fs, f, fault) ==
    IF fault.site = "read" THEN fault.exc
    ELSE IF ~fs[f].exists THEN "OSError"
    ELSE None

RECURSIVE RstAdmonitions(_, _, _, _, _)
RECURSIVE RstAdmonition(_, _, _, _, _)
RECURSIVE AdmonitionsFrom(_, _, _, _, _, _)

\* line 441: the included text is image-embedded, whatever the environment
IncludeEmbed(included, bytes, fault) == EmbedImages(included, bytes, fault)

\* the include branch of _rst_admonition, for one directive
RstAdmonition(tok, depth, fs, bytes, fault) ==
    LET f == FileOf(tok)
        re == ReadRaises(fs, f, fault)
        te == IF fault.site = "trim" THEN fault.exc ELSE None
        included == IF re = None THEN fs[f].text ELSE <<>>
        rs0 == (IF re = None THEN {} ELSE {<<"read", re>>})
               \cup (IF te = None THEN {} ELSE {<<"trim", te>>})
    IN  IF re # None /\ ~IsInstance(re, ReadCatches) THEN Raise("read", re, {})
        ELSE IF te # None /\ ~IsInstance(te, TrimCatches) THEN Raise("trim", te, rs0)
        ELSE LET rec == RstAdmonitions(included, depth + 1, fs, bytes, fault)
             IN  IF rec.exc # None
                 THEN [rec EXCEPT !.raised = @ \cup rs0]
                 ELSE LET emb == IncludeEmbed(rec.out, bytes, fault)
                      IN  [emb EXCEPT !.raised = @ \cup rec.raised \cup rs0]

AdmonitionsFrom(contents, i, depth, fs, bytes, fault) ==
    IF i > Len(contents) THEN Ok(<<>>, {})
    ELSE LET head == IF IsInclude(contents[i])
                     THEN RstAdmonition(contents[i], depth, fs, bytes, fault)
                     ELSE Ok(<<contents[i]>>, {})
         IN  IF head.exc # None THEN head
             ELSE LET rest == AdmonitionsFrom(contents, i + 1, depth, fs, bytes, fault)
                  IN  IF rest.exc # None
                      THEN [rest EXCEPT !.raised = @ \cup head.raised]
                      ELSE Ok(head.out \o rest.out, head.raised \cup rest.raised)

\* _rst_admonitions; the interpreter refuses a call nested deeper than its
\* recursion limit
RstAdmonitions(contents, depth, fs, bytes, fault) ==
    IF depth > RecursionLimit THEN Raise("body", "RecursionError", {})
    ELSE AdmonitionsFrom(contents, 1, depth, fs, bytes, fault)

Rst(contents, fs, bytes, fault) ==
    IF fault.site = "body" THEN Raise("body", fault.exc, {})
    ELSE LET res == RstAdmonitions(contents, 0, fs, bytes, fault)
         IN  IF res.exc # None THEN res
             ELSE Ok([i \in DOMAIN res.out |->
                        IF res.out[i] = "role" THEN "code" ELSE res.out[i]],
                     res.raised)

(***************************************************************************)
(* google and numpy                                                        *)
(***************************************************************************)
Google(text, fault) ==
    IF fault.site = "body" THEN Raise("body", fault.exc, {})
    ELSE Ok([i \in DOMAIN text |-> IF text[i] = "gsec" THEN "gmd" ELSE text[i]], {})

Numpy(text, fault) ==
    IF fault.site = "body" THEN Raise("body", fault.exc, {})
    ELSE IF \E i \in DOMAIN text : text[i] = "nbad" THEN Raise("body", "AssertionError", {})
    ELSE Ok([i \in DOMAIN text |-> IF text[i] = "nsec" THEN "nmd" ELSE text[i]], {})

(***************************************************************************)
(* convert                                                                 *)
(***************************************************************************)
RunsRstOnlyRst(fmt) == In("restructuredtext", fmt)
RunsRst(fmt) == \E x \in {"google", "numpy", "restructuredtext"} : In(x, fmt)
RunsGoogle(fmt) == In("google", fmt)
RunsNumpy(fmt) == In("numpy", fmt)
RunsEmbed(source_file, e) == source_file # None /\ e # "0"

Key(a) == <<a.docstring, a.docformat, a.source_file>>

\* the table of functools.cache: a set of <<key, value>>, one value a key
MemoHas(m, k) == \E e \in m : e[1] = k
MemoGet(m, k) == (CHOOSE e \in m : e[1] = k)[2]
MemoPut(m, k, v) == IF MemoHas(m, k) THEN m ELSE m \cup {<<k, v>>}

NoOutcome == [kind |-> None, value |-> <<>>, docstring |-> <<>>,
              docformat |-> <<>>, source_file |-> None, cause |-> None]
Returns(value) == [NoOutcome EXCEPT !.kind = "returned", !.value = value]
Raw(exc) == [NoOutcome EXCEPT !.kind = exc]

\* lines 56-60: the message is built from the local variable docstring
FailureText(a, current) == current

\* lines 55-60
Handle(exc) ==
    IF IsInstance(exc, AnyException)
    THEN [kind |-> "RuntimeError", value |-> <<>>,
          docstring |-> FailureText(args, docstring),
          docformat |-> docformat, source_file |-> args.source_file,
          cause |-> exc]
    ELSE Raw(exc)

NoArgs == [docstring |-> <<>>, docformat |-> <<>>, source_file |-> None]

Init ==
    /\ env = Unset
    /\ img = "v0"
    /\ files = [f \in Files |-> IF f = "f1" THEN File(<<"inc2">>) ELSE File(<<"img">>)]
    /\ memo = {}
    /\ pc = "idle"
    /\ args = NoArgs
    /\ docstring = <<>>
    /\ docformat = <<>>
    /\ trace = <<>>
    /\ raised = {}
    /\ outcome = NoOutcome
    /\ hit = FALSE
    /\ returned = {}
    /\ ncalls = 0
    /\ nedits = 0
    /\ inc = Off /\ fn = Off /\ lk = Off /\ adm = Off /\ spl = Off

envVars == <<env, img, files, nedits>>

\* lines 35-40: the memo lookup of @cache, then docformat.lower()
Call(text, tag, source_file) ==
    /\ pc = "idle"
    /\ ncalls < MaxCalls
    /\ ncalls' = ncalls + 1
    /\ args' = [docstring |-> text, docformat |-> tag, source_file |-> source_file]
    /\ trace' = <<>>
    /\ raised' = {}
    /\ IF MemoHas(memo, Key(args'))
       THEN /\ hit' = TRUE
            /\ outcome' = Returns(MemoGet(memo, Key(args')))
            /\ pc' = "ret"
            /\ UNCHANGED <<docstring, docformat>>
       ELSE /\ hit' = FALSE
            /\ outcome' = NoOutcome
            /\ docstring' = text
            /\ docformat' = Lower(tag)
            /\ pc' = "rst"
    /\ UNCHANGED <<envVars, memo, returned>>
    /\ UNCHANGED <<inc, fn, lk, adm, spl>>

\* one stage of the try block: its result is assigned, or the except clause runs
Stage(name, res, next) ==
    /\ trace' = Append(trace, name)
    /\ raised' = raised \cup res.raised
    /\ IF res.exc = None
       THEN /\ docstring' = res.out
            /\ pc' = next
            /\ outcome' = IF next = "ret" THEN Returns(res.out) ELSE outcome
       ELSE /\ outcome' = Handle(res.exc)
            /\ pc' = "ret"
            /\ UNCHANGED docstring

Skip(next) ==
    /\ pc' = next
    /\ outcome' = IF next = "ret" THEN Returns(docstring) ELSE outcome
    /\ UNCHANGED <<docstring, trace, raised>>

\* lines 43-44
StageRst ==
    /\ pc = "rst"
    /\ IF RunsRst(docformat)
       THEN \E fault \in Faults : Stage("rst", Rst(docstring, files, img, fault), "google")
       ELSE Skip("google")
    /\ UNCHANGED <<envVars, memo, args, docformat, hit, returned, ncalls>>
    /\ UNCHANGED <<inc, fn, lk, adm, spl>>

\* lines 46-47
StageGoogle ==
    /\ pc = "google"
    /\ IF RunsGoogle(docformat)
       THEN \E fault \in Faults : Stage("google", Google(docstring, fault), "numpy")
       ELSE Skip("numpy")
    /\ UNCHANGED <<envVars, memo, args, docformat, hit, returned, ncalls>>
    /\ UNCHANGED <<inc, fn, lk, adm, spl>>

\* lines 49-50
StageNumpy ==
    /\ pc = "numpy"
    /\ IF RunsNumpy(docformat)
       THEN \E fault \in Faults : Stage("numpy", Numpy(docstring, fault), "embed")
       ELSE Skip("embed")
    /\ UNCHANGED <<envVars, memo, args, docformat, hit, returned, ncalls>>
    /\ UNCHANGED <<inc, fn, lk, adm, spl>>

\* lines 52-53 and 62
StageEmbed ==
    /\ pc = "embed"
    /\ IF RunsEmbed(args.source_file, env)
       THEN \E fault \in Faults : Stage("embed", EmbedImages(docstring, img, fault), "ret")
       ELSE Skip("ret")
    /\ UNCHANGED <<envVars, memo, args, docformat, hit, returned, ncalls>>
    /\ UNCHANGED <<inc, fn, lk, adm, spl>>

\* the call leaves convert; @cache stores a returned value
Return ==
    /\ pc = "ret"
    /\ pc' = "idle"
    /\ IF outcome.kind = "returned"
       THEN /\ memo' = MemoPut(memo, Key(args), outcome.value)
            /\ returned' = returned \cup {<<Key(args), outcome.value>>}
       ELSE UNCHANGED <<memo, returned>>
    /\ args' = NoArgs
    /\ docstring' = <<>>
    /\ docformat' = <<>>
    /\ trace' = <<>>
    /\ raised' = {}
    /\ outcome' = NoOutcome
    /\ hit' = FALSE
    /\ UNCHANGED <<envVars, ncalls>>
    /\ UNCHANGED <<inc, fn, lk, adm, spl>>

\* the environment between two calls
SetEnv(v) ==
    /\ pc = "idle" /\ nedits < MaxEdits /\ v # env
    /\ env' = v /\ nedits' = nedits + 1
    /\ UNCHANGED <<img, files, memo, pc, args, docstring, docformat, trace,
                   raised, outcome, hit, returned, ncalls>>
    /\ UNCHANGED <<inc, fn, lk, adm, spl>>

WriteImage(v) ==
    /\ pc = "idle" /\ nedits < MaxEdits /\ v # img
    /\ img' = v /\ nedits' = nedits + 1
    /\ UNCHANGED <<env, files, memo, pc, args, docstring, docformat, trace,
                   raised, outcome, hit, returned, ncalls>>
    /\ UNCHANGED <<inc, fn, lk, adm, spl>>

WriteFile(f, v) ==
    /\ pc = "idle" /\ nedits < MaxEdits /\ v # files[f]
    /\ files' = [files EXCEPT ![f] = v] /\ nedits' = nedits + 1
    /\ UNCHANGED <<env, img, memo, pc, args, docstring, docformat, trace,
                   raised, outcome, hit, returned, ncalls>>
    /\ UNCHANGED <<inc, fn, lk, adm, spl>>

Next ==
    \/ \E text \in Texts, tag \in Tags, s \in Sources : Call(text, tag, s)
    \/ StageRst
    \/ StageGoogle
    \/ StageNumpy
    \/ StageEmbed
    \/ Return
    \/ \E v \in {Unset, "0", "1"} : SetEnv(v)
    \/ \E v \in {Missing, "v0", "v1"} : WriteImage(v)
    \/ \E v \in FileStates : WriteFile("f1", v)

Spec == Init /\ [][Next]_vars

(***************************************************************************)
(* convert as one computation from its arguments and the environment it    *)
(* reads, no exception being raised from outside                           *)
(***************************************************************************)
Fresh(text, tag, source_file, e, fs, bytes) ==
    LET fmt == Lower(tag)
        r1 == IF RunsRst(fmt) THEN Rst(text, fs, bytes, NoFault) ELSE Ok(text, {})
        r2 == IF r1.exc # None THEN r1
              ELSE IF RunsGoogle(fmt) THEN Google(r1.out, NoFault) ELSE r1
        r3 == IF r2.exc # None THEN r2
              ELSE IF RunsNumpy(fmt) THEN Numpy(r2.out, NoFault) ELSE r2
        r4 == IF r3.exc # None THEN r3
              ELSE IF RunsEmbed(source_file, e) THEN EmbedImages(r3.out, bytes, NoFault)
              ELSE r3
    IN  r4

IsPrefix(s, t) == Len(s) <= Len(t) /\ \A i \in 1..Len(s) : s[i] = t[i]

\* the stages the dispatcher is to run for a tag, a source location and a flag
ExpectedStages(tag, source_file, e) ==
    LET low == Lower(tag)
    IN  (IF In("google", low) \/ In("numpy", low) \/ In("restructuredtext", low)
         THEN <<"rst">> ELSE <<>>)
        \o (IF In("google", low) THEN <<"google">> ELSE <<>>)
        \o (IF In("numpy", low) THEN <<"numpy">> ELSE <<>>)
        \o (IF source_file # None /\ e # "0" THEN <<"embed">> ELSE <<>>)

Computing == pc # "idle" /\ ~hit
Left == pc = "ret" /\ ~hit

\* C1: a call that computes its result enters the stages rst, google, numpy,
\* embed in this order, each iff its condition on the lowercased tag, the
\* source location and the flag holds; a call that returns has entered all of
\* them, and when none is to run the value returned is the text passed in.
C1_StageOrder ==
    LET exp == ExpectedStages(args.docformat, args.source_file, env)
    IN  /\ Computing => IsPrefix(trace, exp)
        /\ (Left /\ outcome.kind = "returned") =>
              /\ trace = exp
              /\ (exp = <<>> => outcome.value = args.docstring)

C1_Witness ==
    /\ Left /\ outcome.kind = "returned"
    /\ trace = <<"rst", "google", "numpy", "embed">>

C1_WitnessNone ==
    /\ Left /\ outcome.kind = "returned"
    /\ trace = <<>> /\ outcome.value = args.docstring /\ args.docstring # <<>>

\* C2: a KeyboardInterrupt raised anywhere inside the pipeline leaves convert
\* as that KeyboardInterrupt; any other exception that leaves convert is the
\* RuntimeError of lines 56-60, caused by an exception raised inside, and an
\* exception no inner handler catches always ends as that RuntimeError.
C2_InterruptPropagates ==
    Left =>
      /\ (\E r \in raised : r[2] = "KeyboardInterrupt") <=> outcome.kind = "KeyboardInterrupt"
      /\ outcome.kind \in {"returned", "KeyboardInterrupt", "RuntimeError"}
      /\ outcome.kind = "RuntimeError" =>
            /\ outcome.cause # "KeyboardInterrupt"
            /\ \E r \in raised : r[2] = outcome.cause
      /\ (\E r \in raised : r[2] \in {"SystemExit", "AssertionError", "RecursionError"})
            => outcome.kind = "RuntimeError"

C2_Witness ==
    /\ Left /\ outcome.kind = "KeyboardInterrupt"
    /\ <<"callback", "KeyboardInterrupt">> \in raised
    /\ trace = <<"embed">>

C2_WitnessRead ==
    /\ Left /\ outcome.kind = "KeyboardInterrupt"
    /\ <<"read", "KeyboardInterrupt">> \in raised

\* C3: the RuntimeError raised for a failed stage carries the text passed to
\* convert, the tag (lowercased) and the source location.
C3_CarriesOriginalText ==
    (Left /\ outcome.kind = "RuntimeError") =>
        /\ outcome.docstring = args.docstring
        /\ outcome.docformat = Lower(args.docformat)
        /\ outcome.source_file = args.source_file

\* C4: two calls with the same arguments return the same value, and every
\* memoized value is the value a computation from the same arguments returns
\* in the present environment.
C4_Pure ==
    /\ \A a \in returned, b \in returned : a[1] = b[1] => a[2] = b[2]
    /\ \A m \in memo :
          LET f == Fresh(m[1][1], m[1][2], m[1][3], env, files, img)
          IN  f.exc = None /\ f.out = m[2]

\* C5: with PDOC_EMBED_IMAGES = "0" no value computed by convert holds a
\* data URI.
C5_FlagDisablesEmbedding ==
    (Left /\ env = "0" /\ outcome.kind = "returned") =>
        \A i \in DOMAIN outcome.value : ~IsUri(outcome.value[i])

(***************************************************************************)
(* SpecInclude: _rst_admonitions recursing into included files, one call   *)
(* frame a step.  An included text is the sequence of its include          *)
(* directives; a directive names a file and says whether its path val      *)
(* makes loc.parent / val longer than loc (as "sub/../a.rst" does).        *)
(***************************************************************************)
PathMax == 1

Directives == [file : Files, grows : BOOLEAN]
IncludeTexts == {<<>>} \cup {<<d>> : d \in Directives}
                \cup {<<d, e>> : d \in Directives, e \in {[file |-> "f2", grows |-> FALSE]}}

Frame(file, text, pathlen) == [file |-> file, text |-> text, pos |-> 1, pathlen |-> pathlen]

InitInclude ==
    /\ \E fs \in [Files -> IncludeTexts], d \in Directives :
          inc = [pc |-> "run", files |-> fs,
                 stack |-> <<Frame("docstring", <<d>>, 0)>>,
                 outcome |-> None, warned |-> FALSE, reentered |-> FALSE]
    /\ env = Unset /\ img = "v0" /\ files = [f \in Files |-> NoFile]
    /\ memo = {} /\ pc = "off" /\ args = NoArgs /\ docstring = <<>>
    /\ docformat = <<>> /\ trace = <<>> /\ raised = {} /\ outcome = NoOutcome
    /\ hit = FALSE /\ returned = {} /\ ncalls = 0 /\ nedits = 0
    /\ fn = Off /\ lk = Off /\ adm = Off /\ spl = Off

Top == inc.stack[Len(inc.stack)]

WarnNever(i) == i
\* lines 433-435: warnings.warn("Cannot include ...")
Warn(i) == [i EXCEPT !.warned = TRUE]

\* lines 429-440: the directive at the position of the innermost frame is an
\* include: the file is read (the read fails when the path is too long for
\* the file system) and _rst_admonitions is called on the text read
Include ==
    /\ inc.pc = "run"
    /\ Top.pos <= Len(Top.text)
    /\ LET d == Top.text[Top.pos]
           pathlen == Top.pathlen + (IF d.grows THEN 1 ELSE 0)
           readFails == pathlen > PathMax
           included == IF readFails THEN <<>> ELSE inc.files[d.file]
           i1 == IF readFails THEN Warn(inc) ELSE inc
       IN  IF Len(inc.stack) > RecursionLimit
           THEN \* RecursionError, which convert re-raises (lines 55-60)
                inc' = [i1 EXCEPT !.pc = "done", !.outcome = "RuntimeError"]
           ELSE inc' = [i1 EXCEPT
                          !.stack = Append(@, Frame(d.file, included, pathlen)),
                          !.reentered = @ \/ (~readFails /\
                               \E k \in 1..Len(inc.stack) : inc.stack[k].file = d.file)]
    /\ UNCHANGED <<convertVars, fn, lk, adm, spl>>

\* lines 441-442 and 475-487: no directive is left in the innermost text; the
\* call returns to the frame that made it, or to convert
IncludeReturn ==
    /\ inc.pc = "run"
    /\ Top.pos > Len(Top.text)
    /\ IF Len(inc.stack) = 1
       THEN inc' = [inc EXCEPT !.pc = "done", !.outcome = "returned"]
       ELSE inc' = [inc EXCEPT
                      !.stack = [k \in 1..(Len(inc.stack) - 1) |->
                                   IF k = Len(inc.stack) - 1
                                   THEN [inc.stack[k] EXCEPT !.pos = @ + 1]
                                   ELSE inc.stack[k]]]
    /\ UNCHANGED <<convertVars, fn, lk, adm, spl>>

NextInclude == Include \/ IncludeReturn

SpecInclude == InitInclude /\ [][NextInclude]_vars /\ WF_vars(NextInclude)

C6_WitnessWarned ==
    inc.pc = "done" /\ inc.reentered /\ inc.outcome = "returned" /\ inc.warned

(***************************************************************************)
(* SpecFootnotes: _rst_footnotes.  The text is the sequence of the matches *)
(* of its two regular expressions: a footnote definition ".. [id] ..." or  *)
(* a footnote reference "[id]_"; an id is a sequence of characters.        *)
(***************************************************************************)
MaxFnLen == 3
MaxFnCalls == 2

FnTokens == [kind : {"def"}, id : { <<"*">>, <<"#">>, <<"#", "1">> }] \cup
            [kind : {"ref"}, id : { <<"*">>, <<"#">>, <<"1">> }]
FnTexts == UNION { [1..n -> FnTokens] : n \in 0..MaxFnLen }

NumStr(n) == <<"0", "1", "2", "3", "4", "5", "6", "7", "8", "9">>[n + 1]

\* fn_id in "*#"
InStarHash(id) == id \in { <<>>, <<"*">>, <<"#">>, <<"*", "#">> }

RECURSIVE Lstrip(_)
\* fn_id.lstrip("#*")
Lstrip(id) ==
    IF id # <<>> /\ Head(id) \in {"#", "*"} THEN Lstrip(Tail(id)) ELSE id

\* lines 310-314 and 337-341: the id a marker resolves to
FnId(id, autonum) ==
    Lstrip(IF InStarHash(id) THEN <<"fn-", NumStr(autonum)>> ELSE id)

NextAutonum(id, autonum) == IF InStarHash(id) THEN autonum + 1 ELSE autonum

InitFootnotes ==
    /\ fn = [pc |-> "idle", text |-> <<>>, contents |-> <<>>, i |-> 1,
             footnotes |-> {}, autonum |-> 1, calls |-> 0]
    /\ env = Unset /\ img = "v0" /\ files = [f \in Files |-> NoFile]
    /\ memo = {} /\ pc = "off" /\ args = NoArgs /\ docstring = <<>>
    /\ docformat = <<>> /\ trace = <<>> /\ raised = {} /\ outcome = NoOutcome
    /\ hit = FALSE /\ returned = {} /\ ncalls = 0 /\ nedits = 0
    /\ inc = Off /\ lk = Off /\ adm = Off /\ spl = Off

\* line 305: footnotes: set[str] = set()
FreshFootnotes(old) == {}

\* lines 303-320: a call of _rst_footnotes begins
FnCall(text) ==
    /\ fn.pc \in {"idle", "done"}
    /\ fn.calls < MaxFnCalls
    /\ fn' = [pc |-> "register", text |-> text, contents |-> text, i |-> 1,
              footnotes |-> FreshFootnotes(fn.footnotes), autonum |-> 1,
              calls |-> fn.calls + 1]
    /\ UNCHANGED <<convertVars, inc, lk, adm, spl>>

\* lines 308-317: register_footnote, called for the next definition
RegisterFootnote ==
    /\ fn.pc = "register"
    /\ fn.i <= Len(fn.contents)
    /\ fn.contents[fn.i].kind = "def"
    /\ LET id == fn.contents[fn.i].id
           fn_id == FnId(id, fn.autonum)
       IN  fn' = [fn EXCEPT
                    !.autonum = NextAutonum(id, @),
                    !.footnotes = @ \cup {fn_id},
                    !.contents[fn.i] = [kind |-> "mddef", id |-> fn_id],
                    !.i = @ + 1]
    /\ UNCHANGED <<convertVars, inc, lk, adm, spl>>

\* re.sub passes over text its pattern does not match
FnSkip ==
    /\ fn.pc \in {"register", "replace"}
    /\ fn.i <= Len(fn.contents)
    /\ fn.contents[fn.i].kind # (IF fn.pc = "register" THEN "def" ELSE "ref")
    /\ fn' = [fn EXCEPT !.i = @ + 1]
    /\ UNCHANGED <<convertVars, inc, lk, adm, spl>>

ReferenceAutonumShared(autonum) == autonum
\* line 347: autonum = 1
ReferenceAutonum(autonum) == 1

\* lines 333-348: the first re.sub is over, the second begins
StartReferences ==
    /\ fn.pc = "register"
    /\ fn.i > Len(fn.contents)
    /\ fn' = [fn EXCEPT !.pc = "replace", !.i = 1,
                        !.autonum = ReferenceAutonum(@)]
    /\ UNCHANGED <<convertVars, inc, lk, adm, spl>>

\* lines 335-345: replace_references, called for the next reference
ReplaceReference ==
    /\ fn.pc = "replace"
    /\ fn.i <= Len(fn.contents)
    /\ fn.contents[fn.i].kind = "ref"
    /\ LET id == fn.contents[fn.i].id
           fn_id == FnId(id, fn.autonum)
       IN  fn' = [fn EXCEPT
                    !.autonum = NextAutonum(id, @),
                    !.contents[fn.i] = IF fn_id \in fn.footnotes
                                       THEN [kind |-> "mdref", id |-> fn_id]
                                       ELSE @,
                    !.i = @ + 1]
    /\ UNCHANGED <<convertVars, inc, lk, adm, spl>>

\* line 349
FnReturn ==
    /\ fn.pc = "replace"
    /\ fn.i > Len(fn.contents)
    /\ fn' = [fn EXCEPT !.pc = "done"]
    /\ UNCHANGED <<convertVars, inc, lk, adm, spl>>

NextFootnotes ==
    \/ \E text \in FnTexts : FnCall(text)
    \/ RegisterFootnote
    \/ FnSkip
    \/ StartReferences
    \/ ReplaceReference
    \/ FnReturn

SpecFootnotes == InitFootnotes /\ [][NextFootnotes]_vars

\* the number of anonymous markers of a kind among the first n elements
RECURSIVE AnonCount(_, _, _)
AnonCount(text, kind, n) ==
    IF n = 0 THEN 0
    ELSE AnonCount(text, kind, n - 1)
         + (IF text[n].kind = kind /\ text[n].id \in {<<"*">>, <<"#">>} THEN 1 ELSE 0)

\* the id of the element at p: fn-k for the k-th anonymous marker of its kind,
\* the id without its leading # or * otherwise
ResolvedId(text, p) ==
    IF text[p].id \in {<<"*">>, <<"#">>}
    THEN <<"fn-", NumStr(AnonCount(text, text[p].kind, p))>>
    ELSE IF Head(text[p].id) \in {"#", "*"} THEN Tail(text[p].id) ELSE text[p].id

DefinedIds(text) ==
    { ResolvedId(text, p) : p \in {q \in DOMAIN text : text[q].kind = "def"} }

\* C7: when _rst_footnotes returns, a reference is rewritten to [^id] iff its
\* resolved id is that of a definition anywhere in the same text (the k-th
\* anonymous reference iff there are at least k anonymous definitions), and is
\* unchanged otherwise; and every call begins with no id registered.
C7_DefinitionsBeforeReferences ==
    /\ (fn.pc = "register" /\ fn.i = 1) => fn.footnotes = {}
    /\ fn.pc = "done" =>
          \A p \in DOMAIN fn.text :
             fn.text[p].kind = "ref" =>
                LET r == ResolvedId(fn.text, p)
                IN  /\ fn.contents[p] = (IF r \in DefinedIds(fn.text)
                                         THEN [kind |-> "mdref", id |-> r]
                                         ELSE fn.text[p])
                    /\ fn.text[p].id \in {<<"*">>, <<"#">>} =>
                         (fn.contents[p].kind = "mdref" <=>
                            AnonCount(fn.text, "ref", p)
                               <= AnonCount(fn.text, "def", Len(fn.text)))

\* a forward reference and the second anonymous reference resolved, in a call
\* that follows another one
C7_Witness ==
    /\ fn.pc = "done" /\ fn.calls = 2
    /\ Len(fn.text) = 3
    /\ fn.text[1] = [kind |-> "ref", id |-> <<"#">>]
    /\ fn.text[2] = [kind |-> "ref", id |-> <<"*">>]
    /\ fn.text[3] = [kind |-> "def", id |-> <<"*">>]
    /\ fn.contents[1] = [kind |-> "mdref", id |-> <<"fn-", "1">>]
    /\ fn.contents[2] = fn.text[2]

(***************************************************************************)
(* SpecLinks: _rst_links, character by character.  An item of the text is  *)
(* one character, or one line ".. _id: url" (a hyperlink target).          *)
(***************************************************************************)
MaxLkLen == 4

Char(c) == [kind |-> "ch", id |-> <<c>>, url |-> ""]
Target(id, url) == [kind |-> "target", id |-> id, url |-> url]
Link(text, url) == [kind |-> "link", id |-> text, url |-> url]

\* the backtick
Tick == "'"

LkChars == {"a", "B", "_", Tick, " "}
LkItems == {Char(c) : c \in LkChars}
           \cup {Target(<<"B">>, "http://b"), Target(<<"a", " ", "B">>, "http://ab")}
LkTexts == UNION { [1..n -> LkItems] : n \in 0..MaxLkLen }

\* str.lower()
LowerChar(c) == IF c = "B" THEN "b" ELSE c

RECURSIVE Without(_, _)
\* re.sub(<a class of characters>, "", s)
Without(str, class) ==
    IF str = <<>> THEN <<>>
    ELSE IF Head(str) \in class THEN Without(Tail(str), class)
    ELSE <<Head(str)>> \o Without(Tail(str), class)

LowerStr(str) == [k \in DOMAIN str |-> LowerChar(str[k])]

\* line 357: re.sub(r"\s", "", m.group("id").lower())
TargetRefid(id) == Without(LowerStr(id), {" "})
\* line 363: re.sub(r"[\s backtick]", "", text.lower())
ReferenceRefid(text) == Without(LowerStr(text), {" ", Tick})

RECURSIVE StripTicks(_)
\* text.strip(Tick)
StripTicks(str) ==
    IF str # <<>> /\ Head(str) = Tick THEN StripTicks(Tail(str))
    ELSE IF str # <<>> /\ str[Len(str)] = Tick THEN StripTicks(SubSeq(str, 1, Len(str) - 1))
    ELSE str

\* the dict links
LinksHas(l, k) == \E e \in l : e[1] = k
LinksGet(l, k) == (CHOOSE e \in l : e[1] = k)[2]
LinksPut(l, k, v) == {e \in l : e[1] # k} \cup {<<k, v>>}

IsCh(txt, k, c) == k \in DOMAIN txt /\ txt[k] = Char(c)

\* [A-Za-z0-9_\-.:+]
BareClass == {"a", "B", "_"}

\* line 380, first alternative: one character of the class, then "_"
BareEnd(txt, k) ==
    IF k \in DOMAIN txt /\ txt[k].kind = "ch" /\ txt[k].id[1] \in BareClass
       /\ IsCh(txt, k + 1, "_")
    THEN k + 1 ELSE 0

\* line 380, second alternative: a backtick, [^backtick]+, a backtick, then _
TickEnd(txt, k) ==
    IF IsCh(txt, k, Tick)
    THEN LET closing == {j \in DOMAIN txt : j > k /\ IsCh(txt, j, Tick)}
         IN  IF closing = {} THEN 0
             ELSE LET j == CHOOSE x \in closing : \A y \in closing : x <= y
                  IN  IF j > k + 1 /\ IsCh(txt, j + 1, "_") THEN j + 1 ELSE 0
    ELSE 0

\* the end of the match of line 380 that begins at k, or 0
MatchEnd(txt, k) == IF BareEnd(txt, k) # 0 THEN BareEnd(txt, k) ELSE TickEnd(txt, k)

Chars(txt, a, b) == [k \in 1..(b - a + 1) |-> txt[a + k - 1].id[1]]

InitLinks ==
    /\ \E text \in LkTexts :
          lk = [pc |-> "register", text |-> text, contents |-> text, i |-> 1,
                links |-> {}, out |-> <<>>]
    /\ env = Unset /\ img = "v0" /\ files = [f \in Files |-> NoFile]
    /\ memo = {} /\ pc = "off" /\ args = NoArgs /\ docstring = <<>>
    /\ docformat = <<>> /\ trace = <<>> /\ raised = {} /\ outcome = NoOutcome
    /\ hit = FALSE /\ returned = {} /\ ncalls = 0 /\ nedits = 0
    /\ inc = Off /\ fn = Off /\ adm = Off /\ spl = Off

\* lines 356-359: register_link, called for the next hyperlink target
RegisterLink ==
    /\ lk.pc = "register"
    /\ lk.i <= Len(lk.contents)
    /\ lk.contents[lk.i].kind = "target"
    /\ LET t == lk.contents[lk.i]
       IN  lk' = [lk EXCEPT
                    !.links = LinksPut(@, TargetRefid(t.id), t.url),
                    !.contents = SubSeq(@, 1, lk.i - 1) \o SubSeq(@, lk.i + 1, Len(@))]
    /\ UNCHANGED <<convertVars, inc, fn, adm, spl>>

\* lines 374-379: re.sub passes over a character that begins no target
LkPass ==
    /\ lk.pc = "register"
    /\ lk.i <= Len(lk.contents)
    /\ lk.contents[lk.i].kind # "target"
    /\ lk' = [lk EXCEPT !.i = @ + 1]
    /\ UNCHANGED <<convertVars, inc, fn, adm, spl>>

\* line 380: the second re.sub begins
StartLinks ==
    /\ lk.pc = "register"
    /\ lk.i > Len(lk.contents)
    /\ lk' = [lk EXCEPT !.pc = "replace", !.i = 1]
    /\ UNCHANGED <<convertVars, inc, fn, adm, spl>>

\* lines 361-367: replace_link, called for the match that begins at i
ReplaceLink ==
    /\ lk.pc = "replace"
    /\ lk.i <= Len(lk.contents)
    /\ MatchEnd(lk.contents, lk.i) # 0
    /\ LET e == MatchEnd(lk.contents, lk.i)
           text == Chars(lk.contents, lk.i, e - 1)
           refid == ReferenceRefid(text)
       IN  lk' = [lk EXCEPT
                    !.out = IF LinksHas(lk.links, refid)
                            THEN Append(@, Link(StripTicks(text), LinksGet(lk.links, refid)))
                            ELSE @ \o SubSeq(lk.contents, lk.i, e),
                    !.i = e + 1]
    /\ UNCHANGED <<convertVars, inc, fn, adm, spl>>

\* line 380: no match begins at i; the character is copied
CopyChar ==
    /\ lk.pc = "replace"
    /\ lk.i <= Len(lk.contents)
    /\ MatchEnd(lk.contents, lk.i) = 0
    /\ lk' = [lk EXCEPT !.out = Append(@, lk.contents[lk.i]), !.i = @ + 1]
    /\ UNCHANGED <<convertVars, inc, fn, adm, spl>>

\* line 381
LkReturn ==
    /\ lk.pc = "replace"
    /\ lk.i > Len(lk.contents)
    /\ lk' = [lk EXCEPT !.pc = "done"]
    /\ UNCHANGED <<convertVars, inc, fn, adm, spl>>

NextLinks ==
    \/ RegisterLink
    \/ LkPass
    \/ StartLinks
    \/ ReplaceLink
    \/ CopyChar
    \/ LkReturn

SpecLinks == InitLinks /\ [][NextLinks]_vars

Letters == {"a", "B"}
IsLetter(txt, k) == k \in DOMAIN txt /\ txt[k].kind = "ch" /\ txt[k].id[1] \in Letters
Bounded(txt, a, b) ==
    /\ (a = 1 \/ IsCh(txt, a - 1, " "))
    /\ (b = Len(txt) \/ IsCh(txt, b + 1, " "))

\* a bare reference word_ standing at a..b
IsBareMarker(txt, a, b) ==
    /\ a < b /\ IsCh(txt, b, "_")
    /\ \A k \in a..(b - 1) : IsLetter(txt, k)
    /\ Bounded(txt, a, b)

\* a backticked reference 'words'_ standing at a..b
IsTickMarker(txt, a, b) ==
    /\ a + 2 < b /\ IsCh(txt, a, Tick) /\ IsCh(txt, b - 1, Tick) /\ IsCh(txt, b, "_")
    /\ \A k \in (a + 1)..(b - 2) : ~IsCh(txt, k, Tick)
    /\ Bounded(txt, a, b)

Occurs(part, whole) ==
    \E k \in 0..(Len(whole) - Len(part)) :
        \A j \in 1..Len(part) : whole[k + j] = part[j]

\* C8: when _rst_links returns, every reference marker of the text left after
\* the targets were removed, bare word_ or backticked 'words'_, whose name
\* (lowercased, whitespace stripped) is a registered id has become the link
\* [name](url), and every marker whose name is not registered stands unchanged.
C8_ReferencesResolved ==
    lk.pc = "done" =>
      \A a \in DOMAIN lk.contents, b \in DOMAIN lk.contents :
        (IsBareMarker(lk.contents, a, b) \/ IsTickMarker(lk.contents, a, b)) =>
           LET name == StripTicks(Chars(lk.contents, a, b - 1))
               id == Without(LowerStr(name), {" "})
           IN  IF LinksHas(lk.links, id)
               THEN Occurs(<<Link(name, LinksGet(lk.links, id))>>, lk.out)
               ELSE Occurs(SubSeq(lk.contents, a, b), lk.out)

(***************************************************************************)
(* SpecAdmonition: _rst_admonition rendering one matched directive.  A     *)
(* text is a sequence of lines; a line is the number of its leading blanks *)
(* and what follows them ("" for a line of blanks only).                   *)
(***************************************************************************)
MaxIndent == 2
MaxAdmLines == 2

Line(sp, txt) == [sp |-> sp, txt |-> txt]
Blank == Line(0, "")
IsBlank(l) == l.txt = ""

Min(S) == CHOOSE x \in S : \A y \in S : x <= y

\* textwrap.dedent: the margin common to the lines that are not blank is
\* removed, lines of blanks become empty
Dedent(lines) ==
    LET margins == {lines[k].sp : k \in {j \in DOMAIN lines : ~IsBlank(lines[j])}}
        margin == IF margins = {} THEN 0 ELSE Min(margins)
    IN  [k \in DOMAIN lines |->
            IF IsBlank(lines[k]) THEN Blank ELSE Line(lines[k].sp - margin, lines[k].txt)]

RECURSIVE DropLeadingBlank(_)
DropLeadingBlank(lines) ==
    IF lines # <<>> /\ IsBlank(Head(lines)) THEN DropLeadingBlank(Tail(lines)) ELSE lines

RECURSIVE DropTrailingBlank(_)
DropTrailingBlank(lines) ==
    IF lines # <<>> /\ IsBlank(lines[Len(lines)])
    THEN DropTrailingBlank(SubSeq(lines, 1, Len(lines) - 1)) ELSE lines

\* str.lstrip(): leading whitespace goes, line breaks included
LstripLines(lines) ==
    LET rest == DropLeadingBlank(lines)
    IN  IF rest = <<>> THEN <<>> ELSE <<Line(0, rest[1].txt)>> \o Tail(rest)

\* str.strip()
StripLines(lines) == DropTrailingBlank(LstripLines(lines))

RECURSIVE RstExtractOptions(_)
\* lines 391-395: while the text begins (after whitespace) with ":key: value",
\* that line is taken off; what is left begins with its line break
RstExtractOptions(lines) ==
    LET rest == DropLeadingBlank(lines)
    IN  IF rest # <<>> /\ rest[1].txt = ":o:"
        THEN RstExtractOptions(IF Len(rest) = 1 THEN <<>> ELSE <<Blank>> \o Tail(rest))
        ELSE lines

\* textwrap.indent(text, prefix): the prefix goes before every line that is
\* not blank
Indent(lines, n) ==
    [k \in DOMAIN lines |->
        IF IsBlank(lines[k]) THEN lines[k] ELSE Line(lines[k].sp + n, lines[k].txt)]

\* f"{head}{text}{tail}" where head and tail hold no line break: the first
\* line of text continues the line of head, tail continues its last line
Glue(sp, text) ==
    IF text = <<>> THEN <<Line(sp, "t")>>
    ELSE [k \in DOMAIN text |->
            IF k = 1 THEN Line(sp, "t")
            ELSE IF k = Len(text) /\ IsBlank(text[k]) THEN Line(0, "t")
            ELSE text[k]]

AdmonitionTypes == {"include", "math", "note", "warning", "danger", "code-block",
                    "versionadded", "versionchanged", "deprecated", "seealso"}

\* lines 422-472
RstAdmonitionRender(ind, type, val, group, included) ==
    LET contents == RstExtractOptions(StripLines(Dedent(group)))
    IN  IF type = "include" THEN Indent(included, ind)
        ELSE IF type = "math" THEN Glue(ind, contents)
        ELSE IF type \in {"note", "warning", "danger"}
             THEN <<Line(ind, "<div>")>>
                  \o (IF val # "" THEN <<Line(ind, "###### t")>> ELSE <<>>)
                  \o Indent(contents, ind)
                  \o <<Line(ind, "</div>")>>
        ELSE IF type = "code-block"
             THEN <<Line(ind, "fence t")>> \o contents \o <<Line(0, "fence")>>
        ELSE IF contents # <<>>
             THEN <<Line(ind, "*t:*")>> \o Indent(contents, ind) \o <<Blank>>
             ELSE <<Line(ind, "*t.*")>>

\* the lines a directive at indent ind can hold: blank, or indented deeper
GroupLines(ind) ==
    {Blank} \cup {Line(ind + d, t) : d \in 1..2, t \in {"x", ":o:"}}
AdmTexts(lineSet) == UNION { [1..n -> lineSet] : n \in 0..MaxAdmLines }
IncludedLines == {Blank, Line(0, "x"), Line(1, "x")}

InitAdmonition ==
    /\ \E ind \in 0..MaxIndent, type \in AdmonitionTypes, val \in {"", "v"} :
         \E group \in AdmTexts(GroupLines(ind)), included \in AdmTexts(IncludedLines) :
            /\ (type # "include" => included = <<>>)
            /\ (type = "include" => group = <<>>)
            /\ adm = [pc |-> "matched", ind |-> ind, type |-> type, val |-> val,
                      group |-> group, included |-> included, out |-> <<>>]
    /\ env = Unset /\ img = "v0" /\ files = [f \in Files |-> NoFile]
    /\ memo = {} /\ pc = "off" /\ args = NoArgs /\ docstring = <<>>
    /\ docformat = <<>> /\ trace = <<>> /\ raised = {} /\ outcome = NoOutcome
    /\ hit = FALSE /\ returned = {} /\ ncalls = 0 /\ nedits = 0
    /\ inc = Off /\ fn = Off /\ lk = Off /\ spl = Off

\* re.sub calls _rst_admonition for the match and takes what it returns
RstAdmonitionCall ==
    /\ adm.pc = "matched"
    /\ adm' = [adm EXCEPT
                 !.pc = "rendered",
                 !.out = RstAdmonitionRender(adm.ind, adm.type, adm.val,
                                             adm.group, adm.included)]
    /\ UNCHANGED <<convertVars, inc, fn, lk, spl>>

NextAdmonition == RstAdmonitionCall

SpecAdmonition == InitAdmonition /\ [][NextAdmonition]_vars

\* C9: every line of the rendering of a directive that is not blank begins
\* with the indent prefix of the directive.
C9_IndentReapplied ==
    adm.pc = "rendered" =>
        \A k \in DOMAIN adm.out : ~IsBlank(adm.out[k]) => adm.out[k].sp >= adm.ind

(***************************************************************************)
(* SpecSplitter: google and numpy handing a section body to                *)
(* _indented_list, and its scan, line by line.                             *)
(***************************************************************************)
MaxSplLines == 3

SplLines == {Blank, Line(2, ""), Line(0, "x"), Line(1, "x"), Line(2, "x")}
SplTexts == UNION { [1..n -> SplLines] : n \in 0..MaxSplLines }

\* "\n" followed by neither a blank nor "\n": a later line that begins with
\* another character, or the end of the text after a final line break
TailStarts(content) ==
    {j \in 2..Len(content) :
        \/ (content[j].sp = 0 /\ ~IsBlank(content[j]))
        \/ (j = Len(content) /\ content[j] = Blank)}

\* lines 201-208 of numpy: the tail is cut off, the rest dedented
NumpyContent(content) ==
    Dedent(IF content # <<>> /\ content[1].sp > 0 /\ TailStarts(content) # {}
           THEN SubSeq(content, 1, Min(TailStarts(content)) - 1)
           ELSE content)

\* line 124 of _google_section
GoogleContents(group) == LstripLines(Dedent(group))

\* lines 210-222 and 129: whether the section is given to _indented_list
NumpySplits(heading) == heading \in {"Parameters", "See Also"}
GoogleSplits(name) == name \in {"Args", "Raises", "Attributes"}

StartsWithBlank(contents) == contents # <<>> /\ contents[1].sp > 0
StartsWithNewline(contents) == Len(contents) > 1 /\ contents[1] = Blank

\* str.splitlines(): a final empty line is no line
SplitLines(contents) ==
    IF contents # <<>> /\ contents[Len(contents)] = Blank
    THEN SubSeq(contents, 1, Len(contents) - 1) ELSE contents

InitSplitter ==
    /\ \E caller \in {"google", "numpy"},
          heading \in {"Parameters", "See Also", "Notes", "Args"},
          content \in SplTexts,
          asserts \in BOOLEAN :   \* FALSE: the interpreter runs with -O
          \* numpy: the heading pattern takes every line break before content
          \* google: the body is one or more lines, empty or indented
          /\ caller = "numpy" => heading # "Args"
                                 /\ (content # <<>> => content[1] # Blank)
          /\ caller = "google" => heading \in {"Args", "Notes"}
                                  /\ content # <<>>
                                  /\ \A k \in DOMAIN content :
                                        content[k] = Blank \/ content[k].sp > 0
          /\ spl = [pc |-> "section", caller |-> caller, heading |-> heading,
                    asserts |-> asserts,
                    content |-> content, contents |-> <<>>, lines |-> <<>>,
                    i |-> 1, ret |-> <<>>]
    /\ env = Unset /\ img = "v0" /\ files = [f \in Files |-> NoFile]
    /\ memo = {} /\ pc = "off" /\ args = NoArgs /\ docstring = <<>>
    /\ docformat = <<>> /\ trace = <<>> /\ raised = {} /\ outcome = NoOutcome
    /\ hit = FALSE /\ returned = {} /\ ncalls = 0 /\ nedits = 0
    /\ inc = Off /\ fn = Off /\ lk = Off /\ adm = Off

\* lines 200-224 of numpy, lines 123-142 of _google_section: the body of the
\* section is prepared and, for a list section, _indented_list is called
Section ==
    /\ spl.pc = "section"
    /\ LET contents == IF spl.caller = "numpy" THEN NumpyContent(spl.content)
                       ELSE GoogleContents(spl.content)
           splits == IF spl.caller = "numpy" THEN NumpySplits(spl.heading)
                     ELSE GoogleSplits(spl.heading)
       IN  spl' = [spl EXCEPT !.contents = contents,
                              !.pc = IF splits THEN "called" ELSE "done"]
    /\ UNCHANGED <<convertVars, inc, fn, lk, adm>>

\* lines 169-173: the two assertions, then splitlines
IndentedListEnter ==
    /\ spl.pc = "called"
    /\ spl' = [spl EXCEPT
                 !.pc = IF spl.asserts /\ (StartsWithBlank(spl.contents)
                                            \/ StartsWithNewline(spl.contents))
                        THEN "AssertionError" ELSE "scan",
                 !.lines = SplitLines(spl.contents),
                 !.i = 1,
                 !.ret = <<>>]
    /\ UNCHANGED <<convertVars, inc, fn, lk, adm>>

\* lines 173-181: one line of the loop
IndentedListLine ==
    /\ spl.pc = "scan"
    /\ spl.i <= Len(spl.lines)
    /\ LET line == spl.lines[spl.i]
           empty == IsBlank(line)
           indented == line.sp > 0
       IN  IF ~(empty \/ indented)
           THEN spl' = [spl EXCEPT !.ret = Append(@, <<line>>), !.i = @ + 1]
           ELSE IF spl.ret = <<>>
           THEN spl' = [spl EXCEPT !.pc = "IndexError"]
           ELSE spl' = [spl EXCEPT !.ret[Len(spl.ret)] = Append(@, line), !.i = @ + 1]
    /\ UNCHANGED <<convertVars, inc, fn, lk, adm>>

\* line 183
IndentedListReturn ==
    /\ spl.pc = "scan"
    /\ spl.i > Len(spl.lines)
    /\ spl' = [spl EXCEPT !.pc = "done"]
    /\ UNCHANGED <<convertVars, inc, fn, lk, adm>>

NextSplitter ==
    \/ Section
    \/ IndentedListEnter
    \/ IndentedListLine
    \/ IndentedListReturn

SpecSplitter == InitSplitter /\ [][NextSplitter]_vars

\* C10: every text google or numpy gives to _indented_list begins with a line
\* that is neither blank nor indented (or is empty), and the splitter fails
\* no assertion and never meets a blank or indented line with no item open.
C10_SplitterPrecondition ==
    /\ spl.pc = "called" =>
          (spl.contents = <<>> \/ spl.contents = <<Blank>>
           \/ (spl.contents[1].sp = 0 /\ ~IsBlank(spl.contents[1])))
    /\ spl.pc \notin {"AssertionError", "IndexError"}

TypeOK ==
    /\ pc \in {"off", "idle", "rst", "google", "numpy", "embed", "ret"}
    /\ ncalls \in 0..MaxCalls

====
